---------------------------- MODULE Spec2Model ----------------------------
(***************************************************************************)
(* Model of the deploy-preview action (src/.github/actions/deploy-preview): *)
(* main() of deploy.ts, the optimistic-concurrency update of               *)
(* previews/<slug>/values.yaml in the gitops repository, and run() of      *)
(* index.ts, which wraps it.  Two invocations run against one document     *)
(* path; every await of the code is one step of an invocation.             *)
(* The pure functions of deploy.ts (slugify, buildPreviewValues,           *)
(* updatePreviewValues) and postOrUpdatePrComment of gha.ts are also        *)
(* exercised on their own: SpecMerge, SpecComment, SpecSlug.                *)
(***************************************************************************)
EXTENDS Naturals, Sequences, FiniteSets, TLC

\* ------------------------------------------------------------------ bounds

\* One invocation (Spec): the commits other writers may make to the document,
\* and the requests that may fail for a reason of their own (an HTTP 5xx or
\* 401/403, a sink that raises).
MaxEnvWrites == 3

MaxFaults == 2

\* Two concurrent invocations (SpecRace): the other writers' budget; the two
\* invocations race over a store whose calls do not fail.
RaceEnvWrites == 2

\* One invocation while the document is also deleted or edited by hand
\* (SpecOps): the writes others may make to the document.
OpsEnvWrites == 3

\* One invocation whose requests all return (SpecLive): the same two budgets
\* as for Spec.
LiveEnvWrites == 3

LiveFaults == 1

\* The merge functions on their own (SpecMerge): the operations applied to one
\* document, the first of them buildPreviewValues.
MaxOps == 3

\* postOrUpdatePrComment on its own (SpecComment): the calls made on one
\* thread, one after the other, and the comments other users add meanwhile.
MaxCalls == 3

MaxUserComments == 1

MaxInitialComments == 2

\* slugify on its own (SpecSlug): the length of the head-ref.
MaxBranchLen == 4

\* buildSummary on its own (SpecSummary): the entries of the document.
MaxSummaryEntries == 3

\* deploy.ts:8
MAX_RETRIES == 3

\* deploy.ts:89  sha.slice(0, 8)
ShaShortLen == 8

\* gha.ts:6
PR_COMMENT_MARKER == "<!-- akpe-preview -->"

\* The two concurrent invocations of the action.
Procs == {1, 2}

\* ------------------------------------------------------------------ values

\* JavaScript's undefined (a missing sha, a missing status).
Undefined == "<undefined>"

\* services.yaml's serviceRepos keys, in file order; and the catalogs the
\* gitops repository may hold (one of them lacks service a).
Catalog == <<"a", "b", "c">>

Catalogs == {Catalog, <<"b", "c">>}

GoodRepo == <<"o", "/", "r">>

\* string.includes('/') on a string given as a sequence of characters.
Includes(str, ch) == \E i \in 1..Len(str) : str[i] = ch

\* deploy.ts:127 with the empty check alone
RepoMalformedOnlyEmpty(gitopsRepo) == Len(gitopsRepo) = 0

\* deploy.ts:127  (!gitopsRepo || !gitopsRepo.includes('/'))
RepoMalformed(gitopsRepo) == Len(gitopsRepo) = 0 \/ ~Includes(gitopsRepo, "/")

Range(s) == {s[i] : i \in 1..Len(s)}

\* ------------------------------------------------------------------ slugify
\* A string is a sequence of characters over SlugChars: an upper-case letter,
\* a lower-case letter, a digit, the separator and another character.

SlugChars == {"A", "b", "1", "-", "/"}

\* The characters of the model that match [a-z0-9].
AzDigits == {"a", "b", "1"}

\* deploy.ts:12  toLowerCase()
ToLowerCase(str) == [i \in 1..Len(str) |-> IF str[i] = "A" THEN "a" ELSE str[i]]

\* deploy.ts:13  replace(/[^a-z0-9]/g, '-')
ReplaceNonAlnum(str) ==
    [i \in 1..Len(str) |-> IF str[i] \in AzDigits THEN str[i] ELSE "-"]

\* deploy.ts:14  replace(/-+/g, '-')
RECURSIVE CollapseDashes(_)
CollapseDashes(str) ==
    IF Len(str) <= 1 THEN str
    ELSE IF str[1] = "-" /\ str[2] = "-" THEN CollapseDashes(Tail(str))
    ELSE <<str[1]>> \o CollapseDashes(Tail(str))

\* deploy.ts:15  replace(/^-|-$/g, ''): one separator off the start, then one
\* off the end of what is left
TrimDashes(str) ==
    LET t == IF Len(str) > 0 /\ str[1] = "-" THEN Tail(str) ELSE str
    IN  IF Len(t) > 0 /\ t[Len(t)] = "-" THEN SubSeq(t, 1, Len(t) - 1) ELSE t

\* deploy.ts:10-16 without line 14
slugifyNoCollapse(str) == TrimDashes(ReplaceNonAlnum(ToLowerCase(str)))

\* deploy.ts:10-16
slugify(str) == TrimDashes(CollapseDashes(ReplaceNonAlnum(ToLowerCase(str))))

\* ------------------------------------------------------- State Merge Engine

\* deploy.ts:48-71 with the entries that have no commitSha left out
updatePreviewValuesDropsBare(existing, serviceName, commitSha, inputs) ==
    [services |->
        SelectSeq(existing.services,
                  LAMBDA e : "commitSha" \in DOMAIN e /\ e.name # serviceName)
        \o <<[name |-> serviceName, commitSha |-> commitSha]>>]

buildServiceMetadata(inputs) ==
    ("pr-author" :> inputs.prAuthor) @@
    ("pr-url" :> inputs.prUrl) @@
    ("pr-number" :> inputs.prNumber) @@
    ("created-at" :> inputs.timestamp) @@
    ("updated-at" :> inputs.timestamp) @@
    ("vcs.ref.name" :> inputs.headRef) @@
    ("cicd.pipeline.run.url" :> inputs.workflowRunUrl)

\* deploy.ts:37-45 without line 41
buildPreviewValuesNoMetadata(serviceName, commitSha, catalog, inputs) ==
    [services |->
        [i \in 1..Len(catalog) |->
            IF catalog[i] = serviceName
            THEN [name |-> catalog[i], commitSha |-> commitSha]
            ELSE [name |-> catalog[i]]]]

\* deploy.ts:37-45 without the test of line 39
buildPreviewValuesPinsAll(serviceName, commitSha, catalog, inputs) ==
    [services |->
        [i \in 1..Len(catalog) |->
            [name |-> catalog[i], commitSha |-> commitSha,
             metadata |-> buildServiceMetadata(inputs)]]]

\* One entry per catalog name; an entry is a record that has the keys
\* commitSha and metadata only when they are set (optional fields).
buildPreviewValues(serviceName, commitSha, catalog, inputs) ==
    [services |->
        [i \in 1..Len(catalog) |->
            IF catalog[i] = serviceName
            THEN [name |-> catalog[i], commitSha |-> commitSha,
                  metadata |-> buildServiceMetadata(inputs)]
            ELSE [name |-> catalog[i]]]]

\* Array.find that finds nothing
FindIndexNone(services, serviceName) == 0

\* Array.find: the index of the first entry with that name, 0 when none.
FindIndex(services, serviceName) ==
    IF \E i \in 1..Len(services) : services[i].name = serviceName
    THEN CHOOSE i \in 1..Len(services) :
            /\ services[i].name = serviceName
            /\ \A j \in 1..(i - 1) : services[j].name # serviceName
    ELSE 0

\* svc.metadata?.['created-at'] ?? ''
ExistingCreatedAt(svc) ==
    IF "metadata" \in DOMAIN svc /\ "created-at" \in DOMAIN svc.metadata
    THEN svc.metadata["created-at"]
    ELSE ""

\* deploy.ts:48-71 with every other entry reset to its name
updatePreviewValuesClearsOthers(existing, serviceName, commitSha, inputs) ==
    [services |->
        SelectSeq([k \in 1..Len(existing.services) |->
                      [name |-> existing.services[k].name]],
                  LAMBDA e : e.name # serviceName)
        \o <<[name |-> serviceName, commitSha |-> commitSha,
              metadata |-> buildServiceMetadata(inputs)]>>]

\* deploy.ts:48-71 with the push whether or not the entry is there
updatePreviewValuesPushes(existing, serviceName, commitSha, inputs) ==
    [services |->
        Append(existing.services,
               [name |-> serviceName, commitSha |-> commitSha,
                metadata |-> buildServiceMetadata(inputs)])]

\* deploy.ts:48-71 with unshift in place of push
updatePreviewValuesInsertsFirst(existing, serviceName, commitSha, inputs) ==
    LET k == FindIndex(existing.services, serviceName)
        fresh == buildServiceMetadata(inputs)
    IN  IF k # 0
        THEN LET svc == existing.services[k]
                 existingCreatedAt == ExistingCreatedAt(svc)
                 metadata == IF existingCreatedAt # ""
                             THEN [fresh EXCEPT !["created-at"] = existingCreatedAt]
                             ELSE fresh
                 others == [x \in (DOMAIN svc) \ {"commitSha", "metadata"} |-> svc[x]]
             IN  [services |->
                    [existing.services EXCEPT
                        ![k] = others @@ [commitSha |-> commitSha, metadata |-> metadata]]]
        ELSE [services |->
                <<[name |-> serviceName, commitSha |-> commitSha,
                   metadata |-> fresh]>> \o existing.services]

updatePreviewValues(existing, serviceName, commitSha, inputs) ==
    LET k == FindIndex(existing.services, serviceName)
        fresh == buildServiceMetadata(inputs)
    IN  IF k # 0
        THEN LET svc == existing.services[k]
                 existingCreatedAt == ExistingCreatedAt(svc)
                 metadata == IF existingCreatedAt # ""
                             THEN [fresh EXCEPT !["created-at"] = existingCreatedAt]
                             ELSE fresh
                 others == [x \in (DOMAIN svc) \ {"commitSha", "metadata"} |-> svc[x]]
             IN  [services |->
                    [existing.services EXCEPT
                        ![k] = others @@ [commitSha |-> commitSha, metadata |-> metadata]]]
        ELSE [services |->
                Append(existing.services,
                       [name |-> serviceName, commitSha |-> commitSha,
                        metadata |-> fresh])]

\* ------------------------------------------------------------- buildSummary
\* A table cell is a record: the text shown and the url it links to, '' when
\* it is no link; the status cell also has the mark put before the text.

\* deploy.ts:84-85  svc.metadata?.[key] ?? ''
MetadataOr(svc, key) ==
    IF "metadata" \in DOMAIN svc /\ key \in DOMAIN svc.metadata
    THEN svc.metadata[key]
    ELSE ""

\* deploy.ts:88  if (sha): set and not empty
HasSha(svc) == "commitSha" \in DOMAIN svc /\ svc.commitSha # <<>>

\* deploy.ts:89
ShaShort(sha) == IF Len(sha) >= ShaShortLen THEN SubSeq(sha, 1, ShaShortLen) ELSE sha

\* deploy.ts:83-96  one row of the table
SummaryRow(svc) ==
    LET prUrl == MetadataOr(svc, "pr-url")
        prNumber == MetadataOr(svc, "pr-number")
    IN  IF HasSha(svc)
        THEN [name |-> svc.name,
              status |-> [mark |-> "pinned", text |-> ShaShort(svc.commitSha),
                          url |-> ""],
              ref |-> IF prUrl # ""
                      THEN [text |-> <<"PR #", prNumber>>, url |-> prUrl]
                      ELSE [text |-> <<"-">>, url |-> ""]]
        ELSE [name |-> svc.name,
              status |-> [mark |-> "tracking main", text |-> <<>>, url |-> ""],
              ref |-> [text |-> <<"-">>, url |-> ""]]

\* deploy.ts:73-101
buildSummary(slug, config, commitMessage, commitUrl) ==
    [title |-> slug,
     rows |-> [k \in 1..Len(config.services) |-> SummaryRow(config.services[k])],
     commit |-> [text |-> commitMessage, url |-> commitUrl]]

\* ------------------------------------------------------------ Document Codec
\* The YAML text is a sequence of lines <<key, value>>; a key that is not set
\* on an entry has no line.

MetadataKeys ==
    <<"pr-author", "pr-url", "pr-number", "created-at", "updated-at",
      "vcs.ref.name", "cicd.pipeline.run.url">>

DumpMetadata(m) ==
    LET keys == SelectSeq(MetadataKeys, LAMBDA k : k \in DOMAIN m)
    IN  <<<<"  metadata:", "">>>> \o [i \in 1..Len(keys) |-> <<keys[i], m[keys[i]]>>]

DumpEntry(e) ==
    <<<<"- name", e.name>>>>
    \o (IF "commitSha" \in DOMAIN e THEN <<<<"  commitSha", e.commitSha>>>> ELSE <<>>)
    \o (IF "metadata" \in DOMAIN e THEN DumpMetadata(e.metadata) ELSE <<>>)

RECURSIVE DumpEntries(_)
DumpEntries(services) ==
    IF Len(services) = 0 THEN <<>>
    ELSE CHOOSE text \in {DumpEntry(Head(list)) \o DumpEntries(Tail(list)) :
                              list \in {services}} : TRUE

dumpYaml(config) == <<<<"services:", "">>>> \o DumpEntries(config.services)

\* One line read into the entries read so far.
ReadLine(acc, line) ==
    LET n == Len(acc) IN
    IF line[1] = "- name" THEN Append(acc, [name |-> line[2]])
    ELSE IF n = 0 THEN acc
    ELSE IF line[1] = "  commitSha"
         THEN [acc EXCEPT ![n] = @ @@ [commitSha |-> line[2]]]
    ELSE IF line[1] = "  metadata:"
         THEN [acc EXCEPT ![n] = @ @@ [metadata |-> <<>>]]
    ELSE IF "metadata" \in DOMAIN acc[n]
         THEN [acc EXCEPT ![n] =
                  [x \in DOMAIN @ |->
                      IF x = "metadata" THEN @[x] @@ (line[1] :> line[2]) ELSE @[x]]]
    ELSE acc

\* The lines read in order.  The entries read so far and the lines left are
\* bound as values before the next line is read, so each is computed once.
RECURSIVE ReadLines(_, _)
ReadLines(acc, lines) ==
    IF Len(lines) = 0 THEN acc
    ELSE CHOOSE read \in {ReadLines(a, rest) : a \in {ReadLine(acc, Head(lines))},
                                              rest \in {Tail(lines)}} : TRUE

\* yaml.load(text) with every text taken for a document
DecodableAlways(text) == TRUE

\* yaml.load(text) as PreviewValues: a text without a services list decodes to
\* a value on which updatePreviewValues throws (existing.services.find).
Decodable(text) == Len(text) > 0 /\ text[1] = <<"services:", "">>

LoadYaml(text) == [services |-> ReadLines(<<>>, Tail(text))]

\* ------------------------------------------------------------ remote store
\* The gitops repository's contents API for the one document path.  A file's
\* sha is its blob sha: a function of its content alone.

BlobSha(text) == <<"blob", text>>

\* data.commit.html_url of a write that landed.
CommitUrl(text) == <<"commit", text>>

\* fileSha while undefined (no file seen).
NoSha == <<>>

AbsentStore == [exists |-> FALSE, content |-> <<>>]

\* getContent on the document path: the file, 404 when there is none, or a
\* failure of the request itself (500), or a path that is not a file (an
\* Error without status, status 0 here).
FetchResponses(st, mayFail) ==
    (IF st.exists
     THEN {[status |-> 200, sha |-> BlobSha(st.content), content |-> st.content]}
     ELSE {[status |-> 404]})
    \cup (IF mayFail THEN {[status |-> 500], [status |-> 0]} ELSE {})

\* createOrUpdateFileContents: with a sha, the write lands only on the blob
\* that sha names (409 otherwise); without a sha it creates the file, and on
\* an existing file it is refused (409, or 422 "sha wasn't supplied").  Any
\* request may also fail with 401, 403 or 500.  A response is the status and
\* the store after the request.
CommitResponses(st, req, mayFail) ==
    (IF req.sha # NoSha
     THEN IF st.exists /\ BlobSha(st.content) = req.sha
          THEN {[status |-> 200, url |-> CommitUrl(req.content),
                 store |-> [exists |-> TRUE, content |-> req.content]]}
          ELSE {[status |-> 409, store |-> st]}
     ELSE IF ~st.exists
          THEN {[status |-> 201, url |-> CommitUrl(req.content),
                 store |-> [exists |-> TRUE, content |-> req.content]]}
          ELSE {[status |-> 409, store |-> st], [status |-> 422, store |-> st]})
    \cup (IF mayFail
          THEN {[status |-> s, store |-> st] : s \in {401, 403, 500}}
          ELSE {})

\* The write did not land because the document is not the one the request
\* was built from (as opposed to a failure of the request itself).
LostRace(st, req) ==
    IF req.sha # NoSha
    THEN ~(st.exists /\ BlobSha(st.content) = req.sha)
    ELSE st.exists

\* ------------------------------------------------------------------ inputs

BaseInputs(p) ==
    [gitopsRepo |-> GoodRepo,
     serviceName |-> IF p = 1 THEN "a" ELSE "b",
     headRef |-> <<"A", "/", "b">>,
     commitSha |-> IF p = 1 THEN "sha1" ELSE "sha2",
     prAuthor |-> "dev",
     prUrl |-> "pr-url",
     prNumber |-> "1",
     timestamp |-> IF p = 1 THEN "t1" ELSE "t2",
     workflowRunUrl |-> "run-url",
     githubToken |-> "token"]

\* The inputs an invocation may be started with.
InputChoices(p) ==
    IF p = 1
    THEN {BaseInputs(p),
          [BaseInputs(p) EXCEPT !.serviceName = "x"],
          [BaseInputs(p) EXCEPT !.serviceName = "b"],
          [BaseInputs(p) EXCEPT !.githubToken = Undefined],
          [BaseInputs(p) EXCEPT !.gitopsRepo = <<"o", "r">>],
          [BaseInputs(p) EXCEPT !.gitopsRepo = <<>>]}
    ELSE {BaseInputs(p)}

\* What another writer (an invocation for service c) pins at its k-th commit.
EnvShas == <<"e1", "e2", "e3", "e4", "e5">>

EnvInputs(k) ==
    [BaseInputs(2) EXCEPT !.serviceName = "c", !.commitSha = EnvShas[k],
                          !.timestamp = "te"]

\* A document written earlier: a pinned at "old" (created at t0), b unpinned.
OldDoc ==
    [services |->
        <<[name |-> "a", commitSha |-> "old",
           metadata |-> buildServiceMetadata(
                            [BaseInputs(1) EXCEPT !.timestamp = "t0"])],
          [name |-> "b"]>>]

CorruptText == <<<<"garbage", "">>>>

StoreInits ==
    {AbsentStore,
     [exists |-> TRUE, content |-> dumpYaml(OldDoc)],
     [exists |-> TRUE, content |-> CorruptText]}

\* -------------------------------------------------------------------- state

VARIABLES
    store,      \* the document path in the gitops repository
    servicesYaml, \* the catalog in services.yaml of the gitops repository
    faultsLeft, \* requests that may still fail for a reason of their own
    envLeft,    \* commits other writers may still make
    inputs,     \* ActionInputs of each invocation
    pc,         \* the await each invocation is at
    loc,        \* main's local variables
    outcome,    \* how main ended: returned, or the error it threw
    setFailed,  \* the messages run passed to core.setFailed
    published,  \* what reached the reporting sinks, in order
    fetchLog,   \* every getContent response on the document path, in order
    commitLog,  \* every createOrUpdateFileContents request and its response
    catalogLog, \* the status of every getContent on services.yaml, in order
    outputs     \* the core.setOutput calls of each invocation, in order

\* The functions of deploy.ts and gha.ts exercised on their own.
VARIABLES
    values,     \* the PreviewValues the merge functions are applied to
    before,     \* values as it was before the last operation
    opLog,      \* the operations applied to values, in order
    thread,     \* the comments of a pull request, in creation order
    thread0,    \* the thread as it was before the first call
    listed,     \* the running postOrUpdatePrComment call: its body and the
                \* comments it has listed; empty between calls
    calls,      \* the finished postOrUpdatePrComment calls
    userLeft,   \* comments other users may still add to the thread
    branch,     \* a head-ref given to slugify
    slugs,      \* slugify(branch), slugify(slugify(branch)), ...
    summaryConfig, \* a PreviewValues given to buildSummary
    summary     \* what buildSummary returned for it; empty before the call

mainVars == <<store, servicesYaml, faultsLeft, envLeft, inputs, pc, loc, outcome,
              setFailed, published, fetchLog, commitLog, catalogLog, outputs>>

mergeVars == <<values, before, opLog>>

commentVars == <<thread, thread0, listed, calls, userLeft>>

slugVars == <<branch, slugs>>

summaryVars == <<summaryConfig, summary>>

unitVars == <<mergeVars, commentVars, slugVars, summaryVars>>

vars == <<mainVars, unitVars>>

\* No function is exercised on its own.
MergeIdle ==
    /\ values = [services |-> <<>>]
    /\ before = [services |-> <<>>]
    /\ opLog = <<>>

CommentIdle ==
    /\ thread = <<>>
    /\ thread0 = <<>>
    /\ listed = <<>>
    /\ calls = <<>>
    /\ userLeft = 0

SlugIdle ==
    /\ branch = <<>>
    /\ slugs = <<>>

SummaryIdle ==
    /\ summaryConfig = [services |-> <<>>]
    /\ summary = <<>>

UnitIdle == MergeIdle /\ CommentIdle /\ SlugIdle /\ SummaryIdle

InitLoc ==
    [catalog |-> <<>>, exists |-> FALSE, fileSha |-> NoSha,
     config |-> [services |-> <<>>], oldContent |-> <<>>,
     yamlContent |-> <<>>, attempt |-> 0]

\* The invocations in active are started; the others never run.
InitFor(active, catalogs, nFaults, nEnvWrites) ==
    /\ store \in StoreInits
    /\ servicesYaml \in catalogs
    /\ faultsLeft = nFaults
    /\ envLeft = nEnvWrites
    /\ inputs \in [Procs -> UNION {InputChoices(p) : p \in Procs}]
    /\ \A p \in Procs : inputs[p] \in InputChoices(p)
    /\ \A p \in Procs \ active : inputs[p] = BaseInputs(p)
    /\ pc = [p \in Procs |-> IF p \in active THEN "start" ELSE "idle"]
    /\ loc = [p \in Procs |-> InitLoc]
    /\ outcome = [p \in Procs |-> [kind |-> "none"]]
    /\ setFailed = [p \in Procs |-> <<>>]
    /\ published = [p \in Procs |-> <<>>]
    /\ fetchLog = [p \in Procs |-> <<>>]
    /\ commitLog = [p \in Procs |-> <<>>]
    /\ catalogLog = [p \in Procs |-> <<>>]
    /\ outputs = [p \in Procs |-> <<>>]

Init == InitFor({1}, Catalogs, MaxFaults, MaxEnvWrites) /\ UnitIdle

InitRace == InitFor(Procs, {Catalog}, 0, RaceEnvWrites) /\ UnitIdle

\* No invocation runs and the document path is empty.
MainIdle == InitFor({}, {Catalog}, 0, 0) /\ store = AbsentStore

\* main throws o: run's catch block starts (index.ts:23-27).
Throw(p, o) ==
    /\ outcome' = [outcome EXCEPT ![p] = o]
    /\ pc' = [pc EXCEPT ![p] = "runSummary"]

Thrown(e) == [kind |-> "Error", error |-> e]

MayFail == faultsLeft > 0

\* Counts a request that failed for a reason of its own.
Fault(failed) == faultsLeft' = IF failed THEN faultsLeft - 1 ELSE faultsLeft

\* inputs.prNumber && inputs.githubToken
HasPrThread(i) == i.prNumber # "" /\ i.githubToken # Undefined

\* ------------------------------------------------------------- main, deploy.ts

\* deploy.ts:127-132
Start(p) ==
    /\ pc[p] = "start"
    /\ IF RepoMalformed(inputs[p].gitopsRepo)
       THEN Throw(p, [kind |-> "InputError"])
       ELSE /\ pc' = [pc EXCEPT ![p] = "catalog"]
            /\ UNCHANGED outcome
    /\ UNCHANGED <<store, faultsLeft, envLeft, inputs, servicesYaml, loc, setFailed, published,
                   fetchLog, commitLog,
                   catalogLog, outputs, unitVars>>

\* deploy.ts:159
ServiceUnknownAlwaysKnown(catalog, serviceName) == FALSE

ServiceUnknown(catalog, serviceName) == serviceName \notin Range(catalog)

\* getContent on services.yaml: the catalog, or an error (404, another status,
\* or a file that is not a catalog: an Error without status).
CatalogResponses(file, mayFail) ==
    {[status |-> 200, catalog |-> file]}
    \cup (IF mayFail THEN {[status |-> 404], [status |-> 500], [status |-> 0]}
          ELSE {})

\* deploy.ts:135-163
FetchCatalog(p) ==
    /\ pc[p] = "catalog"
    /\ \E r \in CatalogResponses(servicesYaml, MayFail) :
        /\ Fault(r.status # 200)
        /\ catalogLog' = [catalogLog EXCEPT ![p] = Append(@, r.status)]
        /\ IF r.status # 200
           THEN /\ Throw(p, IF r.status = 404
                             THEN [kind |-> "CatalogNotFound",
                                   repo |-> inputs[p].gitopsRepo]
                             ELSE Thrown([status |-> r.status,
                                          source |-> "services.yaml"]))
                /\ UNCHANGED loc
           ELSE /\ loc' = [loc EXCEPT ![p].catalog = r.catalog]
                /\ IF ServiceUnknown(r.catalog, inputs[p].serviceName)
                   THEN Throw(p, [kind |-> "ServiceNotFound",
                                  serviceName |-> inputs[p].serviceName,
                                  available |-> r.catalog])
                   ELSE /\ pc' = [pc EXCEPT ![p] = "fetch"]
                        /\ UNCHANGED outcome
    /\ UNCHANGED <<store, envLeft, inputs, servicesYaml, setFailed, published,
                   fetchLog, commitLog,
                   outputs, unitVars>>

\* deploy.ts:190  the catch of the first fetch rethrows all but 404
InitialFetchFatalOnlyAuth(status) == status \in {401, 403}

InitialFetchFatal(status) == status # 404

\* deploy.ts:176-199
InitialFetch(p) ==
    /\ pc[p] = "fetch"
    /\ \E r \in FetchResponses(store, MayFail) :
        /\ Fault(r.status \in {500, 0})
        /\ fetchLog' = [fetchLog EXCEPT ![p] = Append(@, r)]
        /\ IF r.status = 200
           THEN IF Decodable(r.content)
                THEN LET config == updatePreviewValues(LoadYaml(r.content),
                                       inputs[p].serviceName, inputs[p].commitSha,
                                       inputs[p])
                     IN  /\ loc' = [loc EXCEPT ![p].exists = TRUE,
                                               ![p].fileSha = r.sha,
                                               ![p].oldContent = r.content,
                                               ![p].config = config,
                                               ![p].yamlContent = dumpYaml(config),
                                               ![p].attempt = 1]
                         /\ pc' = [pc EXCEPT ![p] = "commit"]
                         /\ UNCHANGED outcome
                ELSE /\ Throw(p, Thrown([status |-> 0, source |-> "decode"]))
                     /\ UNCHANGED loc
           ELSE IF InitialFetchFatal(r.status)
                THEN /\ Throw(p, Thrown([status |-> r.status, source |-> "getContent"]))
                     /\ UNCHANGED loc
                ELSE LET config == buildPreviewValues(inputs[p].serviceName,
                                       inputs[p].commitSha, loc[p].catalog, inputs[p])
                     IN  /\ loc' = [loc EXCEPT ![p].config = config,
                                               ![p].yamlContent = dumpYaml(config),
                                               ![p].attempt = 1]
                         /\ pc' = [pc EXCEPT ![p] = "commit"]
                         /\ UNCHANGED outcome
    /\ UNCHANGED <<store, envLeft, inputs, servicesYaml, setFailed, published, commitLog,
                   catalogLog, outputs, unitVars>>

\* deploy.ts:216-228 with the create message on every commit
CommitRequestCreateMessage(l, i) ==
    LET isUpdate == l.exists /\ l.fileSha # NoSha
    IN  [sha |-> IF isUpdate THEN l.fileSha ELSE NoSha,
         content |-> l.yamlContent,
         message |-> [kind |-> "create"]]

\* deploy.ts:216-228  the request main sends from its local variables
CommitRequest(l, i) ==
    LET isUpdate == l.exists /\ l.fileSha # NoSha
    IN  [sha |-> IF isUpdate THEN l.fileSha ELSE NoSha,
         content |-> l.yamlContent,
         message |-> IF isUpdate
                     THEN [kind |-> "update", serviceName |-> i.serviceName]
                     ELSE [kind |-> "create"]]

\* deploy.ts:243-262  what the catch of the retry loop does with a status
CatchKindAuthRetried(status) ==
    IF status \in {409, 401, 403} THEN "retry" ELSE "rethrow"

CatchKind(status) ==
    IF status = 409 THEN "retry"
    ELSE IF status \in {401, 403} THEN "auth"
    ELSE "rethrow"

\* deploy.ts:242-263  an error e raised anywhere inside the try block
Caught(p, e) ==
    LET kind == CatchKind(e.status) IN
    IF kind = "retry"
    THEN /\ pc' = [pc EXCEPT ![p] = "refetch"]
         /\ UNCHANGED outcome
    ELSE IF kind = "auth"
    THEN Throw(p, [kind |-> "AuthError", repo |-> inputs[p].gitopsRepo,
                   status |-> e.status])
    ELSE Throw(p, Thrown(e))

\* deploy.ts:230-233 with the outputs set whatever the response
SetOutputsAlways(i, r) ==
    <<[name |-> "preview-slug", value |-> slugify(i.headRef)],
      [name |-> "gitops-commit-url", value |-> CommitUrl(<<>>)]>>

\* deploy.ts:230-233  core.setOutput, reached when the write did not throw
SetOutputs(i, r) ==
    IF r.status \in {200, 201}
    THEN <<[name |-> "preview-slug", value |-> slugify(i.headRef)],
           [name |-> "gitops-commit-url", value |-> r.url]>>
    ELSE <<>>

\* deploy.ts:213-233  one attempt: the conditional write and its response
Commit(p) ==
    /\ pc[p] = "commit"
    /\ LET req == CommitRequest(loc[p], inputs[p]) IN
       \E r \in CommitResponses(store, req, MayFail) :
        /\ Fault(r.status \in {401, 403, 500})
        /\ store' = r.store
        /\ commitLog' = [commitLog EXCEPT ![p] =
                Append(@, [req |-> req, status |-> r.status,
                           attempt |-> loc[p].attempt,
                           fetchNo |-> Len(fetchLog[p]),
                           lostRace |-> LostRace(store, req)])]
        /\ outputs' = [outputs EXCEPT ![p] = @ \o SetOutputs(inputs[p], r)]
        /\ IF r.status \in {200, 201}
           THEN /\ pc' = [pc EXCEPT ![p] = "summary"]
                /\ UNCHANGED outcome
           ELSE Caught(p, [status |-> r.status,
                           source |-> "createOrUpdateFileContents"])
    /\ UNCHANGED <<envLeft, inputs, servicesYaml, loc, setFailed, published, fetchLog,
                   catalogLog, unitVars>>

\* A reporting sink answers, or raises an error: one without status, or an
\* HTTP error of the sink (409, 403).
ReportStatuses(mayFail) == {200} \cup (IF mayFail THEN {0, 409, 403} ELSE {})

\* main returns.
Return(p) ==
    /\ outcome' = [outcome EXCEPT ![p] = [kind |-> "ok"]]
    /\ pc' = [pc EXCEPT ![p] = "runDone"]

\* deploy.ts:234-235  await writeSummary(summary), inside the try block
Summary(p) ==
    /\ pc[p] = "summary"
    /\ \E s \in ReportStatuses(MayFail) :
        /\ Fault(s # 200)
        /\ IF s = 200
            THEN /\ published' = [published EXCEPT ![p] = Append(@, "summary")]
                 /\ IF HasPrThread(inputs[p])
                    THEN /\ pc' = [pc EXCEPT ![p] = "comment"]
                         /\ UNCHANGED outcome
                    ELSE Return(p)
            ELSE /\ Caught(p, [status |-> s, source |-> "writeSummary"])
                 /\ UNCHANGED published
    /\ UNCHANGED <<store, envLeft, inputs, servicesYaml, loc, setFailed, fetchLog, commitLog,
                   catalogLog, outputs, unitVars>>

\* deploy.ts:236-241  await postOrUpdatePrComment(...), inside the try block
Comment(p) ==
    /\ pc[p] = "comment"
    /\ \E s \in ReportStatuses(MayFail) :
        /\ Fault(s # 200)
        /\ IF s = 200
            THEN /\ published' = [published EXCEPT ![p] = Append(@, "comment")]
                 /\ Return(p)
            ELSE /\ Caught(p, [status |-> s, source |-> "postOrUpdatePrComment"])
                 /\ UNCHANGED published
    /\ UNCHANGED <<store, envLeft, inputs, servicesYaml, loc, setFailed, fetchLog, commitLog,
                   catalogLog, outputs, unitVars>>

\* deploy.ts:248-254 with the sha and the document left as they were
RefetchedStale(l, data, i) == [l EXCEPT !.attempt = @ + 1]

\* deploy.ts:248-254 without the loop's attempt++
RefetchedNoCount(l, data, i) ==
    LET config == updatePreviewValues(LoadYaml(data.content), i.serviceName,
                                      i.commitSha, i)
    IN  [l EXCEPT !.fileSha = data.sha,
                  !.exists = TRUE,
                  !.config = config,
                  !.yamlContent = dumpYaml(config)]

\* deploy.ts:248-254 without exists = true
RefetchedNoExists(l, data, i) ==
    LET config == updatePreviewValues(LoadYaml(data.content), i.serviceName,
                                      i.commitSha, i)
    IN  [l EXCEPT !.fileSha = data.sha,
                  !.config = config,
                  !.yamlContent = dumpYaml(config),
                  !.attempt = @ + 1]

\* deploy.ts:248-255  main's locals after a re-fetch that returned the file,
\* and the loop's attempt++
Refetched(l, data, i) ==
    LET config == updatePreviewValues(LoadYaml(data.content), i.serviceName,
                                      i.commitSha, i)
    IN  [l EXCEPT !.fileSha = data.sha,
                  !.exists = TRUE,
                  !.config = config,
                  !.yamlContent = dumpYaml(config),
                  !.attempt = @ + 1]

\* deploy.ts:244-256, 212, 266  the re-fetch in the catch block; an error here
\* leaves main.  After it the loop goes on, or ends and main throws.
Refetch(p) ==
    /\ pc[p] = "refetch"
    /\ \E r \in FetchResponses(store, MayFail) :
        /\ Fault(r.status \in {500, 0})
        /\ fetchLog' = [fetchLog EXCEPT ![p] = Append(@, r)]
        /\ IF r.status # 200
           THEN /\ Throw(p, Thrown([status |-> r.status, source |-> "getContent"]))
                /\ UNCHANGED loc
           ELSE IF ~Decodable(r.content)
           THEN /\ Throw(p, Thrown([status |-> 0, source |-> "decode"]))
                /\ UNCHANGED loc
           ELSE LET l == Refetched(loc[p], r, inputs[p]) IN
                /\ loc' = [loc EXCEPT ![p] = l]
                /\ IF l.attempt <= MAX_RETRIES
                   THEN /\ pc' = [pc EXCEPT ![p] = "commit"]
                        /\ UNCHANGED outcome
                   ELSE Throw(p, [kind |-> "RetryExhausted",
                                  attempts |-> MAX_RETRIES])
    /\ UNCHANGED <<store, envLeft, inputs, servicesYaml, setFailed, published, commitLog,
                   catalogLog, outputs, unitVars>>

\* ------------------------------------------------------------- run, index.ts

\* index.ts:37  core.setFailed(message)
SetFailed(p) == setFailed' = [setFailed EXCEPT ![p] = Append(@, outcome[p])]

\* index.ts:23-28  await writeSummary(failureSummary), outside any try
RunSummary(p) ==
    /\ pc[p] = "runSummary"
    /\ \E ok \in {TRUE} \cup {~MayFail} :
        /\ Fault(~ok)
        /\ IF ok
           THEN /\ published' = [published EXCEPT ![p] = Append(@, "failureSummary")]
                /\ IF HasPrThread(inputs[p])
                   THEN /\ pc' = [pc EXCEPT ![p] = "runComment"]
                        /\ UNCHANGED setFailed
                   ELSE /\ SetFailed(p)
                        /\ pc' = [pc EXCEPT ![p] = "runDone"]
           ELSE /\ pc' = [pc EXCEPT ![p] = "runRejected"]
                /\ UNCHANGED <<published, setFailed>>
    /\ UNCHANGED <<store, envLeft, inputs, servicesYaml, loc, outcome, fetchLog, commitLog,
                   catalogLog, outputs, unitVars>>

\* index.ts:28-37  the failure comment, in its own try/catch, then setFailed
RunComment(p) ==
    /\ pc[p] = "runComment"
    /\ \E ok \in {TRUE} \cup {~MayFail} :
        /\ Fault(~ok)
        /\ published' = [published EXCEPT ![p] =
                            IF ok THEN Append(@, "failureComment") ELSE @]
    /\ SetFailed(p)
    /\ pc' = [pc EXCEPT ![p] = "runDone"]
    /\ UNCHANGED <<store, envLeft, inputs, servicesYaml, loc, outcome, fetchLog, commitLog,
                   catalogLog, outputs, unitVars>>

\* ------------------------------------------------------------ other writers

\* Another invocation, for service c, lands a commit on the document.
EnvWrite ==
    /\ envLeft > 0
    /\ envLeft <= Len(EnvShas)
    /\ store.exists => Decodable(store.content)
    /\ LET i == EnvInputs(envLeft)
           config == IF store.exists
                     THEN updatePreviewValues(LoadYaml(store.content),
                                              i.serviceName, i.commitSha, i)
                     ELSE buildPreviewValues(i.serviceName, i.commitSha,
                                             servicesYaml, i)
       IN  store' = [exists |-> TRUE, content |-> dumpYaml(config)]
    /\ envLeft' = envLeft - 1
    /\ UNCHANGED <<faultsLeft, inputs, servicesYaml, pc, loc, outcome, setFailed, published,
                   fetchLog, commitLog,
                   catalogLog, outputs, unitVars>>

\* One step of invocation p: the request it is waiting for returns.
Invocation(p) ==
    \/ Start(p)
    \/ FetchCatalog(p)
    \/ InitialFetch(p)
    \/ Commit(p)
    \/ Summary(p)
    \/ Comment(p)
    \/ Refetch(p)
    \/ RunSummary(p)
    \/ RunComment(p)

Next ==
    \/ \E p \in Procs : Invocation(p)
    \/ EnvWrite

Spec == Init /\ [][Next]_vars

\* Every request of an invocation returns in the end; other writers may
\* commit at any time, or never.
InitLive ==
    /\ InitFor({1}, {Catalog}, LiveFaults, LiveEnvWrites)
    /\ UnitIdle
    /\ inputs[1] = BaseInputs(1)

SpecLive == InitLive /\ [][Next]_vars /\ \A p \in Procs : WF_vars(Invocation(p))

SpecRace == InitRace /\ [][Next]_vars

\* --------------------------------------------- deletion and edits by hand

\* Someone deletes the document (an operation outside the action).
EnvDelete ==
    /\ envLeft > 0
    /\ store.exists
    /\ store' = AbsentStore
    /\ envLeft' = envLeft - 1
    /\ UNCHANGED <<faultsLeft, inputs, servicesYaml, pc, loc, outcome, setFailed,
                   published, fetchLog, commitLog, catalogLog, outputs, unitVars>>

\* Someone commits a text that is not a document.
EnvCorrupt ==
    /\ envLeft > 0
    /\ store.exists
    /\ Decodable(store.content)
    /\ store' = [exists |-> TRUE, content |-> CorruptText]
    /\ envLeft' = envLeft - 1
    /\ UNCHANGED <<faultsLeft, inputs, servicesYaml, pc, loc, outcome, setFailed,
                   published, fetchLog, commitLog, catalogLog, outputs, unitVars>>

InitOps == InitFor({1}, {Catalog}, 0, OpsEnvWrites) /\ UnitIdle

NextOps == Next \/ EnvDelete \/ EnvCorrupt

SpecOps == InitOps /\ [][NextOps]_vars

\* ------------------------------------------- the merge functions on their own

\* The catalogs, service names and timestamps (the timestamp input is
\* optional: '' when not given) the functions are called with; the k-th
\* operation pins MergeShas[k].
MergeCatalogs == {Catalog, <<"b", "c">>, <<>>}

MergeNames == {"a", "b", "x"}

MergeTimestamps == {"", "t1", "t2"}

MergeShas == <<"s1", "s2", "s3", "s4", "s5">>

MergeInputs(serviceName, timestamp, k) ==
    [BaseInputs(1) EXCEPT !.serviceName = serviceName,
                          !.commitSha = MergeShas[k],
                          !.timestamp = timestamp]

\* deploy.ts:195  config = buildPreviewValues(slug, serviceName, commitSha, catalog, inputs)
Build ==
    /\ opLog = <<>>
    /\ \E catalog \in MergeCatalogs, n \in MergeNames, t \in MergeTimestamps :
        LET i == MergeInputs(n, t, 1) IN
        /\ values' = buildPreviewValues(i.serviceName, i.commitSha, catalog, i)
        /\ opLog' = <<[op |-> "build", catalog |-> catalog, inputs |-> i]>>
    /\ before' = values
    /\ UNCHANGED <<mainVars, commentVars, slugVars, summaryVars>>

\* deploy.ts:183, 253  config = updatePreviewValues(existing, serviceName, commitSha, inputs)
Update ==
    /\ Len(opLog) >= 1
    /\ Len(opLog) < MaxOps
    /\ Len(opLog) < Len(MergeShas)
    /\ \E n \in MergeNames, t \in MergeTimestamps :
        LET i == MergeInputs(n, t, Len(opLog) + 1) IN
        /\ values' = updatePreviewValues(values, i.serviceName, i.commitSha, i)
        /\ opLog' = Append(opLog, [op |-> "update", catalog |-> <<>>, inputs |-> i])
    /\ before' = values
    /\ UNCHANGED <<mainVars, commentVars, slugVars, summaryVars>>

\* deploy.ts:181-188  main run again with the inputs of the last operation:
\* the text it committed is decoded and updated
Rerun ==
    /\ Len(opLog) >= 1
    /\ Len(opLog) < MaxOps
    /\ LET last == opLog[Len(opLog)]
           i == last.inputs
       IN  /\ last.op = "build" => i.serviceName \in Range(last.catalog)
           /\ values' = updatePreviewValues(LoadYaml(dumpYaml(values)),
                                            i.serviceName, i.commitSha, i)
           /\ opLog' = Append(opLog, [op |-> "rerun", catalog |-> <<>>, inputs |-> i])
    /\ before' = values
    /\ UNCHANGED <<mainVars, commentVars, slugVars, summaryVars>>

InitMerge == MainIdle /\ UnitIdle

NextMerge == Build \/ Update \/ Rerun

SpecMerge == InitMerge /\ [][NextMerge]_vars

\* ------------------------------------------ postOrUpdatePrComment on its own
\* A comment is a record with an id and, unless its body is null, a body; a
\* body is a sequence of pieces of text, the marker one of them.

\* gha.ts:27
MarkedBody(body) == <<PR_COMMENT_MARKER, "\n">> \o body

\* gha.ts:35  c.body?.includes(PR_COMMENT_MARKER)
HasMarker(c) == "body" \in DOMAIN c /\ Includes(c.body, PR_COMMENT_MARKER)

\* gha.ts:35 finding no comment
FindMarkedNone(comments) == 0

\* gha.ts:35  comments.find(...): the index of the first comment with the
\* marker, 0 when none.
FindMarked(comments) ==
    IF \E i \in 1..Len(comments) : HasMarker(comments[i])
    THEN CHOOSE i \in 1..Len(comments) :
            /\ HasMarker(comments[i])
            /\ \A j \in 1..(i - 1) : ~HasMarker(comments[j])
    ELSE 0

\* The summaries a call is given.
CommentBodies == {<<"ok">>, <<"failed">>}

\* The comments a thread may start with: a user's, one without body, and a
\* marked one left by an earlier run.
CommentKinds == {<<"lgtm">>, <<>>, MarkedBody(<<"old">>)}

NewComment(id, body) ==
    IF body = <<>> THEN [id |-> id] ELSE [id |-> id, body |-> body]

InitialThreads ==
    UNION {{[i \in 1..n |-> NewComment(i, f[i])] : f \in [1..n -> CommentKinds]} :
               n \in 0..MaxInitialComments}

\* gha.ts:29-33  octokit.paginate(listComments): every comment of the thread
ListComments ==
    /\ listed = <<>>
    /\ Len(calls) < MaxCalls
    /\ \E body \in CommentBodies :
        listed' = <<[body |-> body, comments |-> thread]>>
    /\ UNCHANGED <<thread, thread0, calls, userLeft>>
    /\ UNCHANGED <<mainVars, mergeVars, slugVars, summaryVars>>

\* gha.ts:35-51  updateComment on the comment found, or createComment
WriteComment ==
    /\ listed # <<>>
    /\ LET call == listed[1]
           k == FindMarked(call.comments)
       IN  IF k # 0
           THEN /\ thread' = [i \in 1..Len(thread) |->
                                IF thread[i].id = call.comments[k].id
                                THEN [id |-> thread[i].id,
                                      body |-> MarkedBody(call.body)]
                                ELSE thread[i]]
                /\ calls' = Append(calls, [body |-> call.body, op |-> "update",
                                           before |-> thread, after |-> thread'])
           ELSE /\ thread' = Append(thread, [id |-> Len(thread) + 1,
                                             body |-> MarkedBody(call.body)])
                /\ calls' = Append(calls, [body |-> call.body, op |-> "create",
                                           before |-> thread, after |-> thread'])
    /\ listed' = <<>>
    /\ UNCHANGED <<thread0, userLeft>>
    /\ UNCHANGED <<mainVars, mergeVars, slugVars, summaryVars>>

\* Another user comments on the pull request.
UserComment ==
    /\ userLeft > 0
    /\ thread' = Append(thread, [id |-> Len(thread) + 1, body |-> <<"lgtm">>])
    /\ userLeft' = userLeft - 1
    /\ UNCHANGED <<thread0, listed, calls>>
    /\ UNCHANGED <<mainVars, mergeVars, slugVars, summaryVars>>

InitComment ==
    /\ MainIdle
    /\ MergeIdle
    /\ SlugIdle
    /\ SummaryIdle
    /\ thread \in InitialThreads
    /\ thread0 = thread
    /\ listed = <<>>
    /\ calls = <<>>
    /\ userLeft = MaxUserComments

NextComment == ListComments \/ WriteComment \/ UserComment

SpecComment == InitComment /\ [][NextComment]_vars

\* ------------------------------------------------------ buildSummary on its own

LongSha == <<"a", "b", "c", "1", "2", "3", "d", "e", "f", "4", "5", "6">>

\* The entries of the documents given to buildSummary: unpinned, pinned with
\* the metadata of a pull request, pinned without metadata, and pinned at a
\* short commitSha with metadata that has no pr-url.
SummaryEntries ==
    {[name |-> "front"],
     [name |-> "backend-1", commitSha |-> LongSha,
      metadata |-> buildServiceMetadata(BaseInputs(1))],
     [name |-> "backend-2", commitSha |-> LongSha],
     [name |-> "backend-3", commitSha |-> <<"a", "b", "c">>,
      metadata |-> buildServiceMetadata([BaseInputs(1) EXCEPT !.prUrl = ""])]}

SummaryConfigs ==
    UNION {{[services |-> f] : f \in [1..n -> SummaryEntries]} :
               n \in 0..MaxSummaryEntries}

\* deploy.ts:234  buildSummary(slug, config, commitMessage, commitUrl)
BuildSummary ==
    /\ summary = <<>>
    /\ summary' = <<buildSummary(<<"a", "-", "b">>, summaryConfig,
                                 [kind |-> "create"], CommitUrl(<<>>))>>
    /\ UNCHANGED summaryConfig
    /\ UNCHANGED <<mainVars, mergeVars, commentVars, slugVars>>

InitSummary ==
    /\ MainIdle
    /\ MergeIdle
    /\ CommentIdle
    /\ SlugIdle
    /\ summaryConfig \in SummaryConfigs
    /\ summary = <<>>

NextSummary == BuildSummary

SpecSummary == InitSummary /\ [][NextSummary]_vars

\* ---------------------------------------------------------- slugify on its own

Branches == UNION {[1..n -> SlugChars] : n \in 0..MaxBranchLen}

\* slugify applied to the head-ref, then to its own result.
Slugify ==
    /\ Len(slugs) < 2
    /\ slugs' = Append(slugs, slugify(IF slugs = <<>> THEN branch
                                      ELSE slugs[Len(slugs)]))
    /\ UNCHANGED branch
    /\ UNCHANGED <<mainVars, mergeVars, commentVars, summaryVars>>

InitSlug ==
    /\ MainIdle
    /\ MergeIdle
    /\ CommentIdle
    /\ SummaryIdle
    /\ branch \in Branches
    /\ slugs = <<>>

NextSlug == Slugify

SpecSlug == InitSlug /\ [][NextSlug]_vars

\* ------------------------------------------------------------------ claims

MainEnded(p) == outcome[p].kind # "none"

Succeeded(status) == status \in {200, 201}

\* The request main should send after the fetch response f: the update merged
\* into the document f returned under f's sha or, after a 404, a fresh
\* document without sha.
RequestFor(p, f) ==
    IF f.status = 200
    THEN [sha |-> f.sha,
          content |-> dumpYaml(updatePreviewValues(LoadYaml(f.content),
                          inputs[p].serviceName, inputs[p].commitSha, inputs[p]))]
    ELSE [sha |-> NoSha,
          content |-> dumpYaml(buildPreviewValues(inputs[p].serviceName,
                          inputs[p].commitSha, loc[p].catalog, inputs[p]))]

\* C1: every commit main issues carries the sha returned by the most recent
\* fetch of that invocation, and its content is the update merged into the
\* document that same fetch returned.
C1_CommitBuiltFromLastFetch ==
    \A p \in Procs : \A k \in 1..Len(commitLog[p]) :
        LET c == commitLog[p][k]
            f == fetchLog[p][c.fetchNo]
        IN  /\ c.req.sha = RequestFor(p, f).sha
            /\ c.req.content = RequestFor(p, f).content

\* A commit built from a re-fetch that saw another writer's commit has landed.
C1_Witness ==
    \E p \in Procs :
        /\ Len(commitLog[p]) >= 2
        /\ commitLog[p][2].fetchNo = 2
        /\ Succeeded(commitLog[p][2].status)
        /\ fetchLog[p][1].status = 200
        /\ fetchLog[p][2].status = 200
        /\ fetchLog[p][2].content # fetchLog[p][1].content

Pins(st, serviceName, commitSha) ==
    /\ st.exists
    /\ Decodable(st.content)
    /\ \E i \in 1..Len(LoadYaml(st.content).services) :
        LET e == LoadYaml(st.content).services[i]
        IN  e.name = serviceName /\ "commitSha" \in DOMAIN e /\ e.commitSha = commitSha

\* Commit k of p landed and changed the document it was built from.
Changed(p, k) ==
    LET c == commitLog[p][k]
        f == fetchLog[p][c.fetchNo]
    IN  /\ Succeeded(c.status)
        /\ f.status = 200 => c.req.content # f.content

\* C2: of two invocations racing on one document path, present or absent, a
\* commit that finds the document changed under it by the other invocation
\* is answered with a conflict (409) and the invocation re-fetches; two commits built from the
\* same observed state never both change the document; and once both
\* invocations have returned, the stored document pins both services.
C2_RaceLoserRefetchesAndBothPinned ==
    /\ \A p \in Procs : \A k \in 1..Len(commitLog[p]) :
        LET c == commitLog[p][k] IN
        (/\ c.lostRace
         /\ c.status \notin {401, 403, 500}
         /\ envLeft = RaceEnvWrites) =>
            /\ c.status = 409
            /\ pc[p] = "refetch" \/ Len(fetchLog[p]) > c.fetchNo
    /\ \A p, q \in Procs : \A k \in 1..Len(commitLog[p]) : \A m \in 1..Len(commitLog[q]) :
        (/\ p # q
         /\ fetchLog[p][commitLog[p][k].fetchNo] = fetchLog[q][commitLog[q][m].fetchNo]
         /\ Changed(p, k))
        => ~Changed(q, m)
    /\ (\A p \in Procs : outcome[p].kind = "ok") =>
        \A p \in Procs : Pins(store, inputs[p].serviceName, inputs[p].commitSha)

\* The first k answers were conflicts and answer k+1 was a success.
ConflictsThenSuccess(p, k) ==
    /\ Len(commitLog[p]) >= k + 1
    /\ \A j \in 1..k : commitLog[p][j].status = 409
    /\ Succeeded(commitLog[p][k + 1].status)

\* C3: for k < MAX_RETRIES, when the first k commits are answered with a
\* conflict and commit k+1 with success, main succeeds after exactly k+1
\* fetches, and the committed document is the update merged into the last
\* fetched state.
C3_SucceedsAfterKConflicts ==
    \A p \in Procs : \A k \in 0..(MAX_RETRIES - 1) :
        (ConflictsThenSuccess(p, k) /\ MainEnded(p)) =>
            /\ outcome[p].kind = "ok"
            /\ Len(fetchLog[p]) = k + 1
            /\ commitLog[p][k + 1].req.content =
                    RequestFor(p, fetchLog[p][k + 1]).content

AllConflicts(p) ==
    \A k \in 1..Len(commitLog[p]) : commitLog[p][k].status = 409

\* C4: when every commit attempt is answered with a conflict, main issues
\* exactly MAX_RETRIES attempts and then fails with RetryExhausted, reporting
\* MAX_RETRIES attempts.
C4_ExhaustsAfterMaxRetries ==
    \A p \in Procs :
        (/\ MainEnded(p)
         /\ AllConflicts(p)
         /\ Len(commitLog[p]) >= MAX_RETRIES)
        => /\ Len(commitLog[p]) = MAX_RETRIES
           /\ outcome[p] = [kind |-> "RetryExhausted", attempts |-> MAX_RETRIES]

\* C5 as stated: an invocation that ends in RetryExhausted never issued a
\* commit without a sha, also when the first fetch returned 404.
C5_NoCommitWithoutSha ==
    \A p \in Procs :
        outcome[p].kind = "RetryExhausted" =>
            \A k \in 1..Len(commitLog[p]) : commitLog[p][k].req.sha # NoSha

\* C5, amended: in an invocation that ends in RetryExhausted the only commit
\* without a sha is the first one, and only when the first fetch returned 404;
\* every commit built from a fetched document carries that document's sha.
C5_OnlyCreateWithoutSha ==
    \A p \in Procs :
        outcome[p].kind = "RetryExhausted" =>
            \A k \in 1..Len(commitLog[p]) :
                LET c == commitLog[p][k]
                    f == fetchLog[p][c.fetchNo]
                IN  /\ c.req.sha = NoSha => (k = 1 /\ fetchLog[p][1].status = 404)
                    /\ f.status = 200 => c.req.sha = f.sha

\* RetryExhausted after a first commit that was a create.
C5_Witness ==
    \E p \in Procs :
        /\ outcome[p].kind = "RetryExhausted"
        /\ commitLog[p][1].req.sha = NoSha
        /\ Len(commitLog[p]) = MAX_RETRIES

RunPhase(p) == pc[p] \in {"runSummary", "runComment", "runDone", "runRejected"}

\* C6: a commit answered with 401 or 403 ends main at once with an AuthError
\* naming the repository and the status; no fetch and no commit follows it,
\* at whatever attempt.
C6_AuthErrorIsFatal ==
    \A p \in Procs : \A k \in 1..Len(commitLog[p]) :
        LET c == commitLog[p][k] IN
        c.status \in {401, 403} =>
            /\ k = Len(commitLog[p])
            /\ Len(fetchLog[p]) = c.fetchNo
            /\ RunPhase(p)
            /\ outcome[p] = [kind |-> "AuthError", repo |-> inputs[p].gitopsRepo,
                             status |-> c.status]

\* A 403 on a second attempt.
C6_Witness ==
    \E p \in Procs :
        /\ Len(commitLog[p]) = 2
        /\ commitLog[p][2].status = 403
        /\ commitLog[p][2].attempt = 2

\* C7: a first fetch that fails with anything but 404 ends main at once with
\* that error; no commit is issued, so this invocation leaves the stored
\* document as it was.
C7_FirstFetchErrorIsFatal ==
    \A p \in Procs :
        (Len(fetchLog[p]) >= 1 /\ fetchLog[p][1].status \notin {200, 404}) =>
            /\ outcome[p] = Thrown([status |-> fetchLog[p][1].status,
                                    source |-> "getContent"])
            /\ RunPhase(p)
            /\ Len(fetchLog[p]) = 1
            /\ commitLog[p] = <<>>

\* run has finished after a first fetch answered with 500.
C7_Witness ==
    \E p \in Procs :
        /\ Len(fetchLog[p]) = 1
        /\ fetchLog[p][1].status = 500
        /\ pc[p] = "runDone"

\* C8: once a commit has succeeded, main returns success whatever the summary
\* publish or the comment upsert raises.
C8_ReportFailureKeepsSuccess ==
    \A p \in Procs :
        (/\ MainEnded(p)
         /\ \E k \in 1..Len(commitLog[p]) : Succeeded(commitLog[p][k].status))
        => outcome[p].kind = "ok"

\* C9: whenever main fails, run calls setFailed with main's error, whether or
\* not the failure summary or the failure comment can be published.
C9_RunMarksFailure ==
    \A p \in Procs :
        (pc[p] \in {"runDone", "runRejected"} /\ outcome[p].kind # "ok") =>
            setFailed[p] = <<outcome[p]>>

\* C10: a service name that is not in the fetched catalog ends main with
\* ServiceNotFound carrying the whole catalog; the document is neither
\* fetched nor committed, and the name is in no stored document.
C10_UnknownServiceFailsClosed ==
    \A p \in Procs :
        (loc[p].catalog # <<>> /\ inputs[p].serviceName \notin Range(loc[p].catalog)) =>
            /\ outcome[p] = [kind |-> "ServiceNotFound",
                             serviceName |-> inputs[p].serviceName,
                             available |-> loc[p].catalog]
            /\ RunPhase(p)
            /\ fetchLog[p] = <<>>
            /\ commitLog[p] = <<>>
            /\ (store.exists /\ Decodable(store.content)) =>
                    FindIndex(LoadYaml(store.content).services, "x") = 0

\* Service x was asked for, the catalog was fetched, and run has finished.
C10_Witness ==
    \E p \in Procs :
        /\ inputs[p].serviceName = "x"
        /\ loc[p].catalog = Catalog
        /\ pc[p] = "runDone"
        /\ store.exists

\* C11: an invocation whose repository identifier is empty or has no "/"
\* ends main with InputError, and has sent no request: no fetch of
\* services.yaml, no fetch of the document, no commit.
C11_MalformedRepoNoRemoteCall ==
    \A p \in Procs :
        (/\ inputs[p].gitopsRepo = <<>> \/ "/" \notin Range(inputs[p].gitopsRepo)
         /\ pc[p] \notin {"idle", "start"})
        => /\ outcome[p] = [kind |-> "InputError"]
           /\ RunPhase(p)
           /\ catalogLog[p] = <<>>
           /\ fetchLog[p] = <<>>
           /\ commitLog[p] = <<>>

\* run has finished for an identifier without separator.
C11_Witness ==
    \E p \in Procs :
        /\ inputs[p].gitopsRepo = <<"o", "r">>
        /\ pc[p] = "runDone"
        /\ outcome[p].kind = "InputError"

\* The service names of the stored document.
Names(st) ==
    IF st.exists /\ Decodable(st.content)
    THEN {e.name : e \in Range(LoadYaml(st.content).services)}
    ELSE {}

\* C16: no step of any invocation removes the stored document or an entry
\* from it: the set of service names in the stored document never shrinks,
\* whatever the catalog holds.
C16_NoEntryRemoved ==
    [][/\ store.exists => store'.exists
       /\ Names(store) \subseteq Names(store')]_vars

\* An invocation's commit has landed on a document that holds a name the
\* catalog does not.
C16_Witness ==
    /\ "a" \in Names(store)
    /\ "a" \notin Range(servicesYaml)
    /\ \E p \in Procs : \E k \in 1..Len(commitLog[p]) :
            Succeeded(commitLog[p][k].status)

\* Some fetch up to the one commit c was built from returned the document.
Observed(p, c) == \E j \in 1..c.fetchNo : fetchLog[p][j].status = 200

\* C20: a commit has the create message exactly when it carries no sha, which
\* is exactly when no fetch of this invocation has returned the document so
\* far; otherwise it has the update message naming the target service and
\* carries the sha of the document last fetched, on retries as well.
C20_MessageMatchesToken ==
    \A p \in Procs : \A k \in 1..Len(commitLog[p]) :
        LET c == commitLog[p][k] IN
        /\ c.req.message.kind = "create" <=> c.req.sha = NoSha
        /\ c.req.sha = NoSha <=> ~Observed(p, c)
        /\ c.req.sha # NoSha =>
            /\ c.req.message = [kind |-> "update",
                                serviceName |-> inputs[p].serviceName]
            /\ c.req.sha = fetchLog[p][c.fetchNo].sha

\* A create that met a conflict was followed by an update on the retry.
C20_Witness ==
    \E p \in Procs :
        /\ Len(commitLog[p]) >= 2
        /\ commitLog[p][1].req.message.kind = "create"
        /\ commitLog[p][2].req.message.kind = "update"
        /\ commitLog[p][2].attempt = 2

\* The operations of opLog that pinned the service: every update for it, and
\* the build when its catalog held the name.
PinOps(name) ==
    {k \in 1..Len(opLog) :
        /\ opLog[k].inputs.serviceName = name
        /\ opLog[k].op = "build" => name \in Range(opLog[k].catalog)}

FirstPin(name) == opLog[CHOOSE k \in PinOps(name) : \A j \in PinOps(name) : k <= j]

LastPin(name) == opLog[CHOOSE k \in PinOps(name) : \A j \in PinOps(name) : k >= j]

\* C12: after any sequence of build and update operations, every entry's
\* created-at is the timestamp of the operation that first pinned it, whatever
\* the timestamps (the empty one included), and its updated-at is the
\* timestamp of the operation that last pinned it.
C12_CreatedAtSetOnce ==
    \A e \in Range(values.services) :
        "metadata" \in DOMAIN e =>
            /\ PinOps(e.name) # {}
            /\ e.metadata["created-at"] = FirstPin(e.name).inputs.timestamp
            /\ e.metadata["updated-at"] = LastPin(e.name).inputs.timestamp

\* C13: after a build and any updates, an entry has metadata exactly when it
\* has a commitSha.
C13_MetadataIffPinned ==
    opLog # <<>> =>
        \A e \in Range(values.services) :
            "metadata" \in DOMAIN e <=> "commitSha" \in DOMAIN e

\* A built document with a pinned and a bare entry, after an update.
C13_Witness ==
    /\ Len(opLog) >= 2
    /\ \E e \in Range(values.services) : "commitSha" \in DOMAIN e
    /\ \E e \in Range(values.services) : "commitSha" \notin DOMAIN e

\* C14: after a build and any updates, no two entries have the same name.
C14_NamesUnique ==
    \A i, j \in 1..Len(values.services) :
        values.services[i].name = values.services[j].name => i = j

\* An update of an entry that an earlier update had appended.
C14_Witness ==
    /\ Len(opLog) = 3
    /\ opLog[2].inputs.serviceName = "x"
    /\ opLog[3].inputs.serviceName = "x"
    /\ Len(values.services) = Len(opLog[1].catalog) + 1
    /\ opLog[1].catalog = Catalog

\* The last operation, when it was an update.
LastUpdate == opLog[Len(opLog)]

\* C15: an update leaves every entry but the target as it was and where it
\* was.  When the target was there, the document has the same length and the
\* target keeps its place and every field but commitSha and metadata; when it
\* was not, the document is the former one with one entry for the target
\* after it.
C15_UpdateFrame ==
    (Len(opLog) >= 2) =>
        LET i == LastUpdate.inputs
            old == before.services
            new == values.services
            found == {k \in 1..Len(old) : old[k].name = i.serviceName}
        IN  IF found # {}
            THEN /\ Len(new) = Len(old)
                 /\ \A k \in 1..Len(old) :
                        IF k \in found /\ \A j \in found : k <= j
                        THEN /\ new[k].name = old[k].name
                             /\ new[k].commitSha = i.commitSha
                             /\ DOMAIN new[k] = {"name", "commitSha", "metadata"}
                        ELSE new[k] = old[k]
            ELSE /\ Len(new) = Len(old) + 1
                 /\ SubSeq(new, 1, Len(old)) = old
                 /\ new[Len(new)] = [name |-> i.serviceName,
                                      commitSha |-> i.commitSha,
                                      metadata |-> buildServiceMetadata(i)]

\* An update appended x to a built document, and an update changed b in the
\* middle of one.
C15_Witness ==
    /\ Len(opLog) = 3
    /\ opLog[1].catalog = Catalog
    /\ opLog[2].inputs.serviceName = "x"
    /\ opLog[3].inputs.serviceName = "b"
    /\ Len(values.services) = 4

\* C17: buildPreviewValues returns one entry per catalog name, in catalog
\* order; the entry of the target service has the given commitSha and
\* metadata whose created-at and updated-at are both the input timestamp;
\* every other entry has a name and nothing else.
C17_BuildShape ==
    (Len(opLog) = 1) =>
        LET op == opLog[1]
            new == values.services
        IN  /\ Len(new) = Len(op.catalog)
            /\ \A k \in 1..Len(new) :
                /\ new[k].name = op.catalog[k]
                /\ IF op.catalog[k] = op.inputs.serviceName
                   THEN /\ DOMAIN new[k] = {"name", "commitSha", "metadata"}
                        /\ new[k].commitSha = op.inputs.commitSha
                        /\ new[k].metadata["created-at"] = op.inputs.timestamp
                        /\ new[k].metadata["updated-at"] = op.inputs.timestamp
                   ELSE DOMAIN new[k] = {"name"}

\* A document built for b over the three-name catalog.
C17_Witness ==
    /\ Len(opLog) = 1
    /\ opLog[1].catalog = Catalog
    /\ opLog[1].inputs.serviceName = "b"
    /\ Len(values.services) = 3
    /\ "commitSha" \in DOMAIN values.services[2]

MarkedCount(comments) ==
    Cardinality({i \in 1..Len(comments) : HasMarker(comments[i])})

\* C18: a call whose thread has a comment containing the marker replaces the
\* body of the first such comment and creates none; a call whose thread has
\* none creates one marked comment; every other comment is left as it was.
\* So a thread that started with at most one marked comment holds exactly
\* one after any number of calls, and the comments without marker it started
\* with are as they were.
C18_CommentUpsert ==
    /\ \A n \in 1..Len(calls) :
        LET c == calls[n]
            marked == {i \in 1..Len(c.before) :
                         /\ "body" \in DOMAIN c.before[i]
                         /\ PR_COMMENT_MARKER \in Range(c.before[i].body)}
            newBody == <<PR_COMMENT_MARKER, "\n">> \o c.body
        IN  IF marked # {}
            THEN /\ Len(c.after) = Len(c.before)
                 /\ \A i \in 1..Len(c.before) :
                        IF i \in marked /\ \A j \in marked : i <= j
                        THEN c.after[i] = [id |-> c.before[i].id, body |-> newBody]
                        ELSE c.after[i] = c.before[i]
            ELSE c.after = Append(c.before,
                                  [id |-> Len(c.before) + 1, body |-> newBody])
    /\ (MarkedCount(thread0) <= 1 /\ calls # <<>>) => MarkedCount(thread) = 1
    /\ \A i \in 1..Len(thread0) :
            ~HasMarker(thread0[i]) => thread[i] = thread0[i]

\* A thread with a user's comment and no marked one, after a call that
\* created the comment and two that updated it.
C18_Witness ==
    /\ Len(calls) = 3
    /\ calls[1].op = "create"
    /\ calls[2].op = "update"
    /\ calls[3].op = "update"
    /\ thread0 = <<[id |-> 1, body |-> <<"lgtm">>]>>
    /\ MarkedCount(thread) = 1

WellFormedSlug(str) ==
    /\ \A i \in 1..Len(str) : str[i] \in {"a", "b", "1", "-"}
    /\ Len(str) > 0 => (str[1] # "-" /\ str[Len(str)] # "-")
    /\ \A i \in 1..(Len(str) - 1) : ~(str[i] = "-" /\ str[i + 1] = "-")

\* C19: slugify gives a result for every string; the result holds only
\* characters of [a-z0-9] and "-", does not start or end with "-" and has no
\* two "-" in a row; and slugify of the result is the result.
C19_SlugifyIdempotent ==
    /\ Len(slugs) >= 1 => WellFormedSlug(slugs[1])
    /\ Len(slugs) >= 2 => slugs[2] = slugs[1]

\* A head-ref with an upper-case letter and two characters in a row that
\* become separators.
C19_Witness ==
    /\ branch = <<"A", "/", "-", "b">>
    /\ slugs = <<<<"a", "-", "b">>, <<"a", "-", "b">>>>

\* The commits of p that landed, in order.
Landed(p) == SelectSeq(commitLog[p], LAMBDA c : c.status \in {200, 201})

\* C21: an invocation sets the outputs preview-slug and gitops-commit-url
\* exactly when one of its commits has landed: preview-slug is slugify of the
\* head-ref and gitops-commit-url the url the store returned for that commit;
\* and the success summary and the success comment are published only when a
\* commit has landed before.
C21_OutputsIffCommitted ==
    \A p \in Procs :
        /\ outputs[p] # <<>> <=> Landed(p) # <<>>
        /\ Len(outputs[p]) = 2 * Len(Landed(p))
        /\ \A j \in 1..Len(Landed(p)) :
            /\ outputs[p][2 * j - 1] =
                    [name |-> "preview-slug", value |-> slugify(inputs[p].headRef)]
            /\ outputs[p][2 * j] =
                    [name |-> "gitops-commit-url",
                     value |-> <<"commit", Landed(p)[j].req.content>>]
        /\ (\E n \in 1..Len(published[p]) : published[p][n] \in {"summary", "comment"})
                => Landed(p) # <<>>

\* main has returned after a commit, the summary and the comment.
C21_Witness ==
    \E p \in Procs :
        /\ outcome[p].kind = "ok"
        /\ published[p] = <<"summary", "comment">>
        /\ Len(outputs[p]) = 2
        /\ outputs[p][1].value = <<"a", "-", "b">>

\* The fetch returned a text that is not a document with a services list.
BadText(f) ==
    /\ f.status = 200
    /\ f.content = <<>> \/ f.content[1] # <<"services:", "">>

\* C22: a fetch, the first or a re-fetch, that returns a text without a
\* services list is the last request of the invocation: main throws the
\* decode error and no commit is built from that fetch or sent after it.
C22_CorruptDocumentNotOverwritten ==
    \A p \in Procs : \A j \in 1..Len(fetchLog[p]) :
        BadText(fetchLog[p][j]) =>
            /\ j = Len(fetchLog[p])
            /\ outcome[p] = Thrown([status |-> 0, source |-> "decode"])
            /\ RunPhase(p)
            /\ \A k \in 1..Len(commitLog[p]) : commitLog[p][k].fetchNo < j

\* run has finished after a re-fetch that returned a text edited by hand.
C22_Witness ==
    \E p \in Procs :
        /\ Len(fetchLog[p]) = 2
        /\ fetchLog[p][2].status = 200
        /\ fetchLog[p][2].content = CorruptText
        /\ commitLog[p] # <<>>
        /\ pc[p] = "runDone"

\* C25: after every fetch answered 404, the first or a re-fetch, main goes on
\* to a commit without sha of the document buildPreviewValues gives.
C25_NotFoundBuildsFresh ==
    \A p \in Procs : \A j \in 1..Len(fetchLog[p]) :
        fetchLog[p][j].status = 404 =>
            LET fresh == dumpYaml(buildPreviewValues(inputs[p].serviceName,
                             inputs[p].commitSha, loc[p].catalog, inputs[p]))
            IN  \/ /\ pc[p] = "commit"
                   /\ Len(fetchLog[p]) = j
                   /\ loc[p].yamlContent = fresh
                \/ \E k \in 1..Len(commitLog[p]) :
                        /\ commitLog[p][k].fetchNo = j
                        /\ commitLog[p][k].req.sha = NoSha
                        /\ commitLog[p][k].req.content = fresh

\* C23: updatePreviewValues applied again with the same service, commitSha
\* and metadata inputs to the decoded text of its own result gives an equal
\* document, and the text main would commit is the text that is stored.
C23_RerunChangesNothing ==
    (opLog # <<>> /\ opLog[Len(opLog)].op = "rerun") =>
        /\ values = before
        /\ dumpYaml(values) = dumpYaml(before)

\* A rerun of an update that had kept an older created-at.
C23_Witness ==
    /\ Len(opLog) = 3
    /\ opLog[1].inputs.serviceName = "a"
    /\ opLog[1].catalog = Catalog
    /\ opLog[1].inputs.timestamp = "t1"
    /\ opLog[2].op = "update"
    /\ opLog[2].inputs.serviceName = "a"
    /\ opLog[2].inputs.timestamp = "t2"
    /\ opLog[3].op = "rerun"
    /\ values.services[1].metadata["created-at"] = "t1"
    /\ values.services[1].metadata["updated-at"] = "t2"

\* C24: in the summary, the row of an entry with a commitSha shows the first
\* eight characters of it, as a link when the entry's metadata has a pr-url
\* and as plain text when it has none; the row of an entry without commitSha
\* shows the tracking mark and no reference.
C24_SummaryRows ==
    summary # <<>> =>
        \A k \in 1..Len(summaryConfig.services) :
            LET svc == summaryConfig.services[k]
                row == summary[1].rows[k]
                short == IF Len(svc.commitSha) >= 8
                         THEN SubSeq(svc.commitSha, 1, 8) ELSE svc.commitSha
            IN  IF "commitSha" \in DOMAIN svc
                THEN /\ row.status.text = short
                     /\ IF "metadata" \in DOMAIN svc /\ svc.metadata["pr-url"] # ""
                        THEN row.status.url # ""
                        ELSE row.status.url = ""
                ELSE /\ row.status = [mark |-> "tracking main", text |-> <<>>, url |-> ""]
                     /\ row.ref = [text |-> <<"-">>, url |-> ""]

\* C26: when the commit of attempt MAX_RETRIES is answered 409, the
\* invocation sends no further request: no fetch follows that commit, and
\* main ends with RetryExhausted.
C26_NoRequestAfterLastConflict ==
    \A p \in Procs : \A k \in 1..Len(commitLog[p]) :
        LET c == commitLog[p][k] IN
        (c.attempt = MAX_RETRIES /\ c.status = 409) =>
            /\ Len(fetchLog[p]) = c.fetchNo
            /\ MainEnded(p) =>
                    outcome[p] = [kind |-> "RetryExhausted", attempts |-> MAX_RETRIES]

\* C27: a commit that landed is the last request of its invocation to the
\* store: no commit and no fetch of the document follows it, whatever the
\* summary and the comment raise.
C27_OneCommitLands ==
    \A p \in Procs : \A k \in 1..Len(commitLog[p]) :
        LET c == commitLog[p][k] IN
        Succeeded(c.status) =>
            /\ k = Len(commitLog[p])
            /\ Len(fetchLog[p]) = c.fetchNo

\* The service names the stored document pins.
PinnedNames(st) ==
    IF st.exists /\ Decodable(st.content)
    THEN {e.name : e \in {x \in Range(LoadYaml(st.content).services) :
                                "commitSha" \in DOMAIN x}}
    ELSE {}

\* C28: no step of any invocation, in any interleaving, clears a pin: an
\* entry of the stored document that has a commitSha has one after the step.
C28_PinsNeverCleared ==
    [][PinnedNames(store) \subseteq PinnedNames(store')]_vars

\* Both invocations and another writer have pinned their service, on a
\* document that had a pinned before.
C28_Witness ==
    /\ \A p \in Procs : outcome[p].kind = "ok"
    /\ inputs[1].serviceName = "a"
    /\ fetchLog[1][1].status = 200
    /\ PinnedNames(store) = {"a", "b", "c"}
    /\ \E p \in Procs : Len(commitLog[p]) >= 2

\* C29: when every request returns in the end, every invocation ends, in
\* success or in failure, whatever the store answers and however often other
\* writers commit; and it sends at most MAX_RETRIES commits.
C29_MainTerminates ==
    /\ [](\A p \in Procs : Len(commitLog[p]) <= MAX_RETRIES)
    /\ <>(\A p \in Procs :
            \/ pc[p] = "idle"
            \/ MainEnded(p) /\ pc[p] \in {"runDone", "runRejected"})

\* Another writer committed before each of the three attempts, and the
\* invocation has ended.
C29_Witness ==
    \E p \in Procs :
        /\ Len(commitLog[p]) = MAX_RETRIES
        /\ \A k \in 1..MAX_RETRIES :
                commitLog[p][k].status = 409 /\ commitLog[p][k].lostRace
        /\ envLeft = 0
        /\ pc[p] = "runDone"

=============================================================================
